---- MODULE Spec2Model ----
(***************************************************************************)
(* Primis Python SDK (sdk/python/src/primis): the transport/error layer    *)
(* HttpClient.request, session construction (Primis / HttpClient           *)
(* __init__) and the polling loop ImagesResource.wait_for_job.             *)
(*                                                                         *)
(* Text that the code inspects character by character (the API key, the    *)
(* base URL, the Retry-After header) is a sequence of one-character        *)
(* strings.  Text that the code only builds and passes on (messages,       *)
(* paths, codes) is a TLA+ string.  A JSON object is a function from the   *)
(* keys it holds to their values.                                          *)
(***************************************************************************)
EXTENDS Integers, Sequences, FiniteSets, TLC

VARIABLES
    client,      \* the constructed Primis session (HttpClient fields + namespaces), or NoClient
    call,        \* the API call in progress or last finished, with its arguments
    outcome,     \* what that call returned or raised; Pending while it runs
    pc,          \* position of the calling thread: idle / check / fetch / sleep / done
    now,         \* time.time(), in whole seconds
    start_time,  \* wait_for_job's local start_time
    sent,        \* network requests issued by the current call (session.request invocations)
    lastNet,     \* what the network gave back to the latest session.request
    polled,      \* wait_for_job: per fetch, the job status seen, or a marker when the fetch raised
    checked,     \* wait_for_job: per loop test, the elapsed time it measured
    slept,       \* wait_for_job: per time.sleep call, the duration asked for
    events       \* wait_for_job: the order of its loop tests, fetches and sleeps

vars == <<client, call, outcome, pc, now, start_time, sent, lastNet, polled, checked, slept, events>>

-----------------------------------------------------------------------------
(* Bounds of the model *)

MaxTime == 5        \* the clock stops advancing here
MaxFetches == 3     \* fetches one wait_for_job call may perform in the model

(* Program constants *)

DefaultRetryAfter == 60
AuthStatus == 401
RateLimitStatus == 429

-----------------------------------------------------------------------------
(* Character-level helpers *)

Digits == <<"0", "1", "2", "3", "4", "5", "6", "7", "8", "9">>

IsDigit(c) == \E i \in 1..10 : Digits[i] = c

DigitVal(c) == (CHOOSE i \in 1..10 : Digits[i] = c) - 1

\* str.startswith
StartsWith(s, p) == Len(s) >= Len(p) /\ SubSeq(s, 1, Len(p)) = p

\* str.rstrip("/")
RECURSIVE RStripSlash(_)
RStripSlash(s) ==
    IF s # <<>> /\ s[Len(s)] = "/" THEN RStripSlash(SubSeq(s, 1, Len(s) - 1)) ELSE s

\* str.strip() on blanks, as int() applies it to its argument
RECURSIVE LStripBlank(_)
LStripBlank(s) == IF s # <<>> /\ s[1] = " " THEN LStripBlank(Tail(s)) ELSE s

RECURSIVE RStripBlank(_)
RStripBlank(s) ==
    IF s # <<>> /\ s[Len(s)] = " " THEN RStripBlank(SubSeq(s, 1, Len(s) - 1)) ELSE s

\* digits, single underscores allowed between two digits
WellFormedDigits(s) ==
    /\ s # <<>>
    /\ \A i \in 1..Len(s) :
          \/ IsDigit(s[i])
          \/ /\ s[i] = "_"
             /\ 1 < i /\ i < Len(s)
             /\ IsDigit(s[i - 1]) /\ IsDigit(s[i + 1])

RECURSIVE DigitsValue(_, _)
DigitsValue(s, acc) ==
    IF s = <<>> THEN acc
    ELSE IF s[1] = "_" THEN DigitsValue(Tail(s), acc)
    ELSE DigitsValue(Tail(s), 10 * acc + DigitVal(s[1]))

\* int(text): [ok |-> TRUE, val |-> n], or [ok |-> FALSE] where Python raises ValueError
PyInt(text) ==
    LET t == RStripBlank(LStripBlank(text))
        signed == t # <<>> /\ t[1] \in {"+", "-"}
        body == IF signed THEN Tail(t) ELSE t
    IN  IF WellFormedDigits(body)
        THEN [ok |-> TRUE,
              val |-> IF signed /\ t[1] = "-" THEN 0 - DigitsValue(body, 0)
                      ELSE DigitsValue(body, 0)]
        ELSE [ok |-> FALSE]

-----------------------------------------------------------------------------
(* exceptions.py *)

PrimisErrorOf(message, code) ==
    [type |-> "PrimisError", message |-> message, code |-> code]

PrimisAPIError(message, code, status_code) ==
    [type |-> "PrimisAPIError", message |-> message, code |-> code,
     status_code |-> status_code]

PrimisTimeoutError(message) ==
    [type |-> "PrimisTimeoutError", message |-> message, code |-> "TIMEOUT"]

PrimisAuthError(message) ==
    [type |-> "PrimisAuthError", message |-> message, code |-> "AUTH_ERROR",
     status_code |-> AuthStatus]

PrimisRateLimitError(message, retry_after) ==
    [type |-> "PrimisRateLimitError", message |-> message,
     code |-> "RATE_LIMIT_EXCEEDED", status_code |-> RateLimitStatus,
     retry_after |-> retry_after]

\* an exception of the interpreter, not of the library's hierarchy
Builtin(type) == [type |-> type]

Raise(exc) == [kind |-> "raise", exc |-> exc]

Return(value) == [kind |-> "return", value |-> value]

Pending == [kind |-> "pending"]

-----------------------------------------------------------------------------
(* Parsed JSON: [kind |-> "object", value |-> f] with f a function from the *)
(* object's keys, or [kind |-> "array"] for JSON that is not an object.     *)

JsonObject(f) == [kind |-> "object", value |-> f]

JsonArray == [kind |-> "array"]

NotJson == [kind |-> "notjson"]

Has(d, k) == k \in DOMAIN d

\* dict.get(k, default)
DictGet(d, k, default) == IF Has(d, k) THEN d[k] ELSE default

-----------------------------------------------------------------------------
(* HttpClient.request *)

\* requests.Response.ok: raise_for_status raises for 400 <= status < 600
IsOk_2xx(status) == 200 <= status /\ status < 300

IsOk_only200(status) == status = 200

IsOk(status) == ~(400 <= status /\ status < 600)

HttpMessage(status) == "HTTP " \o ToString(status)

\* int(response.headers.get("Retry-After", 60))
RetryAfter(headers) ==
    IF ~Has(headers, "Retry-After") THEN Return(DefaultRetryAfter)
    ELSE LET n == PyInt(headers["Retry-After"])
         IN  IF n.ok THEN Return(n.val) ELSE Raise(Builtin("ValueError"))

\* the "if not response.ok" block; data is the parsed body
HandleError(status, headers, data) ==
    IF data.kind # "object" THEN Raise(Builtin("AttributeError"))
    ELSE LET error_msg == DictGet(data.value, "error", HttpMessage(status))
             error_code == DictGet(data.value, "code", "HTTP_ERROR")
         IN  IF status = AuthStatus THEN Raise(PrimisAuthError(error_msg))
             ELSE IF status = RateLimitStatus
             THEN LET retry_after == RetryAfter(headers)
                  IN  IF retry_after.kind = "raise" THEN retry_after
                      ELSE Raise(PrimisRateLimitError(error_msg, retry_after.value))
             ELSE Raise(PrimisAPIError(error_msg, error_code, status))

\* net is what session.request did: raised requests.Timeout, raised
\* requests.ConnectionError, or gave a response
request(path, net) ==
    IF net.kind = "timeout"
    THEN Raise(PrimisTimeoutError("Request to " \o path \o " timed out"))
    ELSE IF net.kind = "connection_error"
    THEN Raise(PrimisErrorOf("Connection error: " \o net.cause, "CONNECTION_ERROR"))
    ELSE IF net.body.kind = "notjson"
    THEN Raise(PrimisErrorOf("Invalid JSON response from " \o path, "PARSE_ERROR"))
    ELSE IF ~IsOk(net.status)
    THEN HandleError(net.status, net.headers, net.body)
    ELSE Return(net.body)

-----------------------------------------------------------------------------
(* ImagesResource.get_job and the pieces of wait_for_job *)

JobPath(job_id) == "/api/batch/jobs/" \o job_id

\* response.get("job", response) on what request returned
get_job(job_id, net) ==
    LET response == request(JobPath(job_id), net)
    IN  IF response.kind = "raise" THEN response
        ELSE IF response.value.kind # "object" THEN Raise(Builtin("AttributeError"))
        ELSE IF Has(response.value.value, "job")
        THEN Return(JsonObject(response.value.value["job"]))
        ELSE response

IsTerminal_onlyCompleted(status) == status = "completed"

\* job["status"] in ("completed", "failed")
IsTerminal(status) == status \in {"completed", "failed"}

DeadlineOpen_inclusive(elapsed, max_wait) == elapsed <= max_wait

\* the loop test: time.time() - start_time < max_wait
DeadlineOpen(elapsed, max_wait) == elapsed < max_wait

SleepFor_fixed(poll_interval) == 1

\* the argument of time.sleep
SleepFor(poll_interval) == poll_interval

JobTimeoutMessage_default(job_id, max_wait) == "Request timed out"

JobTimeoutMessage(job_id, max_wait) ==
    "Job " \o job_id \o " timed out after " \o ToString(max_wait) \o "s"

FetchStep_retry(job) ==
    IF job.kind = "raise"
    THEN IF job.exc.type = "PrimisRateLimitError"
         THEN [pc |-> "sleep", outcome |-> Pending, mark |-> "<raise>"]
         ELSE [pc |-> "done", outcome |-> job, mark |-> "<raise>"]
    ELSE IF ~Has(job.value.value, "status")
    THEN [pc |-> "done", outcome |-> Raise(Builtin("KeyError")), mark |-> "<no status>"]
    ELSE IF IsTerminal(job.value.value["status"])
    THEN [pc |-> "done", outcome |-> Return(job.value), mark |-> job.value.value["status"]]
    ELSE [pc |-> "sleep", outcome |-> Pending, mark |-> job.value.value["status"]]

\* the loop body after job = self.get_job(job_id): where control goes, what the
\* call yields, and the status the fetch showed (a marker when it showed none)
FetchStep(job) ==
    IF job.kind = "raise"
    THEN [pc |-> "done", outcome |-> job, mark |-> "<raise>"]
    ELSE IF ~Has(job.value.value, "status")
    THEN [pc |-> "done", outcome |-> Raise(Builtin("KeyError")), mark |-> "<no status>"]
    ELSE IF IsTerminal(job.value.value["status"])
    THEN [pc |-> "done", outcome |-> Return(job.value), mark |-> job.value.value["status"]]
    ELSE [pc |-> "sleep", outcome |-> Pending, mark |-> job.value.value["status"]]

-----------------------------------------------------------------------------
(* Session construction *)

Prefix == <<"p", "r", "m", "i", "s", "_">>

ValidKey_noUnderscore(api_key) == StartsWith(api_key, <<"p", "r", "m", "i", "s">>)

\* api_key.startswith("prmis_")
ValidKey(api_key) == StartsWith(api_key, Prefix)

NoClient == [built |-> FALSE]

\* HttpClient.__init__
HttpClientInit(api_key, base_url, timeout) ==
    IF ~ValidKey(api_key)
    THEN Raise(PrimisErrorOf("Invalid API key format. Keys must start with 'prmis_'",
                             "UNKNOWN"))
    ELSE Return([api_key |-> api_key,
                 base_url |-> RStripSlash(base_url),
                 timeout |-> timeout,
                 authorization |-> <<"B", "e", "a", "r", "e", "r", " ">> \o api_key])

Namespaces == {"files", "images", "text", "instances", "api_keys"}

-----------------------------------------------------------------------------
(* Inputs *)

ApiKeys ==
    { Prefix,
      Prefix \o <<"k">>,
      <<>>,
      <<"p", "r", "m", "i", "s">>,
      <<"p", "r", "m", "i", "s", "-", "k">>,
      <<"P", "r", "m", "i", "s", "_", "k">>,
      <<" ">> \o Prefix \o <<"k">>,
      <<"s", "k", "_">> \o Prefix }

BaseUrls == { <<"h">>, <<"h", "/">>, <<"h", "/", "/">> }

Timeouts == {30}

JobIds == {"job_1", "job_2"}

PollIntervals == -1..2

MaxWaits == -1..4

Statuses == {200, 204, 299, 300, 399, 400, 401, 404, 429, 500}

JobStatuses == {"pending", "processing", "completed", "failed"}

ErrorBodies ==
    { [k \in {} |-> ""],
      [error |-> "quota exceeded"],
      [code |-> "E_QUOTA"],
      [error |-> "quota exceeded", code |-> "E_QUOTA"] }

JobBodies ==
    { [job |-> [id |-> "job_1", status |-> s]] : s \in JobStatuses }
    \cup { [job |-> [id |-> "job_1"]] }
    \cup { [id |-> "job_1", status |-> s] : s \in {"pending", "failed"} }

Bodies == {NotJson, JsonArray} \cup { JsonObject(f) : f \in ErrorBodies \cup JobBodies }

NoHeaders == [k \in {} |-> <<>>]

RetryAfterTexts ==
    { <<"7">>, <<"1", "2">>, <<"0">>, <<"-", "3">>, <<" ", "5", " ">>, <<"1", "_", "0">>,
      <<>>, <<"x">>, <<"1", ".", "5">>, <<"_", "1">> }

HeadersFor(status) ==
    {NoHeaders} \cup
    { [k \in {"Retry-After"} |-> t] :
        t \in IF status = RateLimitStatus THEN RetryAfterTexts ELSE {<<"7">>} }

NetOutcomes ==
    { [kind |-> "timeout"], [kind |-> "connection_error", cause |-> "refused"] }
    \cup UNION { { [kind |-> "response", status |-> st, headers |-> h, body |-> b] :
                     h \in HeadersFor(st), b \in Bodies } : st \in Statuses }

\* what the job endpoint is given to answer in the model: every way request can
\* end, and every shape of job record
JobNetOutcomes ==
    { [kind |-> "timeout"], [kind |-> "connection_error", cause |-> "refused"] }
    \cup { [kind |-> "response", status |-> 200, headers |-> NoHeaders, body |-> b] :
             b \in {NotJson, JsonArray}
                   \cup { JsonObject(f) : f \in JobBodies \cup {[k \in {} |-> ""]} } }
    \cup { [kind |-> "response", status |-> 300, headers |-> NoHeaders,
            body |-> JsonObject([job |-> [id |-> "job_1", status |-> "pending"]])] }
    \cup { [kind |-> "response", status |-> st, headers |-> h,
            body |-> JsonObject([error |-> "quota exceeded"])] :
             st \in {401, 429, 500},
             h \in {NoHeaders, [k \in {"Retry-After"} |-> <<"7">>],
                    [k \in {"Retry-After"} |-> <<"x">>]} }

NoNet == [kind |-> "none"]

NoCall == [op |-> "none"]

-----------------------------------------------------------------------------
(* The state machine *)

Init ==
    /\ client = NoClient
    /\ call = NoCall
    /\ outcome = Pending
    /\ pc = "idle"
    /\ now = 0
    /\ start_time = 0
    /\ sent = 0
    /\ lastNet = NoNet
    /\ polled = <<>>
    /\ checked = <<>>
    /\ slept = <<>>
    /\ events = <<>>

\* A behaviour is any number of constructions followed by one call on the
\* session: calls share nothing but the immutable session, so each is checked
\* from the same start.
Callable == pc = "idle"

\* Primis.__init__: HttpClient first, then the resource namespaces
Construct(api_key, base_url, timeout) ==
    /\ Callable
    /\ LET http == HttpClientInit(api_key, base_url, timeout)
       IN  /\ client' = IF http.kind = "raise" THEN client
                        ELSE [built |-> TRUE, http |-> http.value, namespaces |-> Namespaces]
           /\ outcome' = IF http.kind = "raise" THEN http ELSE Return([kind |-> "Primis"])
    /\ call' = [op |-> "Primis", api_key |-> api_key]
    /\ pc' = "idle"
    /\ sent' = 0
    /\ lastNet' = NoNet
    /\ polled' = <<>> /\ checked' = <<>> /\ slept' = <<>> /\ events' = <<>>
    /\ UNCHANGED <<now, start_time>>

\* one HttpClient.request call made through a resource method (files.list)
Request(net) ==
    /\ Callable
    /\ client.built
    /\ call' = [op |-> "request", path |-> "/api/files"]
    /\ outcome' = request("/api/files", net)
    /\ lastNet' = net
    /\ sent' = 1
    /\ pc' = "done"
    /\ polled' = <<>> /\ checked' = <<>> /\ slept' = <<>> /\ events' = <<>>
    /\ UNCHANGED <<client, now, start_time>>

\* wait_for_job entry: start_time = time.time()
WaitStart(job_id, poll_interval, max_wait) ==
    /\ Callable
    /\ client.built
    /\ call' = [op |-> "wait_for_job", job_id |-> job_id,
                poll_interval |-> poll_interval, max_wait |-> max_wait]
    /\ start_time' = now
    /\ outcome' = Pending
    /\ pc' = "check"
    /\ sent' = 0
    /\ lastNet' = NoNet
    /\ polled' = <<>> /\ checked' = <<>> /\ slept' = <<>> /\ events' = <<>>
    /\ UNCHANGED <<client, now>>

\* the clock advances while the call runs
Tick ==
    /\ pc \in {"check", "fetch", "sleep"}
    /\ now < MaxTime
    /\ now' = now + 1
    /\ UNCHANGED <<client, call, outcome, pc, start_time, sent, lastNet, polled,
                   checked, slept, events>>

\* while time.time() - start_time < max_wait ... else raise PrimisTimeoutError
WaitCheck ==
    /\ pc = "check"
    /\ LET elapsed == now - start_time
       IN  /\ checked' = Append(checked, elapsed)
           /\ IF DeadlineOpen(elapsed, call.max_wait)
              THEN /\ pc' = "fetch"
                   /\ outcome' = outcome
              ELSE /\ pc' = "done"
                   /\ outcome' = Raise(PrimisTimeoutError(
                                     JobTimeoutMessage(call.job_id, call.max_wait)))
    /\ events' = Append(events, "check")
    /\ UNCHANGED <<client, call, now, start_time, sent, lastNet, polled, slept>>

\* job = self.get_job(job_id); if job["status"] in (...): return job
WaitFetch(net) ==
    /\ pc = "fetch"
    /\ Len(polled) < MaxFetches
    /\ LET step == FetchStep(get_job(call.job_id, net))
       IN  /\ pc' = step.pc
           /\ outcome' = step.outcome
           /\ polled' = Append(polled, step.mark)
    /\ sent' = sent + 1
    /\ lastNet' = net
    /\ events' = Append(events, "fetch")
    /\ UNCHANGED <<client, call, now, start_time, checked, slept>>

\* time.sleep(poll_interval): ValueError for a negative length, otherwise the
\* thread resumes no earlier than asked, possibly late
WaitSleep(late) ==
    /\ pc = "sleep"
    /\ LET secs == SleepFor(call.poll_interval)
       IN  /\ slept' = Append(slept, secs)
           /\ IF secs < 0
              THEN /\ pc' = "done"
                   /\ outcome' = Raise(Builtin("ValueError"))
                   /\ now' = now
              ELSE /\ now + secs + late <= MaxTime
                   /\ pc' = "check"
                   /\ outcome' = outcome
                   /\ now' = now + secs + late
    /\ events' = Append(events, "sleep")
    /\ UNCHANGED <<client, call, start_time, sent, lastNet, polled, checked>>

Next ==
    \/ \E k \in ApiKeys, b \in BaseUrls, t \in Timeouts : Construct(k, b, t)
    \/ \E net \in NetOutcomes : Request(net)
    \/ \E j \in JobIds, p \in PollIntervals, m \in MaxWaits : WaitStart(j, p, m)
    \/ Tick
    \/ WaitCheck
    \/ \E net \in JobNetOutcomes : WaitFetch(net)
    \/ \E late \in 0..1 : WaitSleep(late)

Spec == Init /\ [][Next]_vars

-----------------------------------------------------------------------------
(* Vocabulary of the properties *)

InWait == call.op = "wait_for_job"

RequestDone == call.op = "request" /\ pc = "done"

GotResponse == RequestDone /\ lastNet.kind = "response"

\* a fetch showed a status that is not terminal
NonTerminal(mark) == mark \in JobStatuses /\ mark \notin {"completed", "failed"}

AllNonTerminal == \A i \in 1..Len(polled) : NonTerminal(polled[i])

\* the job record inside the latest response: its "job" member, else the body
FetchedRecord ==
    IF Has(lastNet.body.value, "job") THEN JsonObject(lastNet.body.value["job"])
    ELSE lastNet.body

IsMove(e) == e # "check"

\* fetches and sleeps in the order they happened
Moves == SelectSeq(events, IsMove)

ExpectedJobTimeout ==
    Raise([type |-> "PrimisTimeoutError",
           message |-> "Job " \o call.job_id \o " timed out after "
                       \o ToString(call.max_wait) \o "s",
           code |-> "TIMEOUT"])

\* every iteration runs loop test, fetch, sleep, in that order
OrderOk ==
    \A i \in 1..Len(events) : events[i] = <<"check", "fetch", "sleep">>[((i - 1) % 3) + 1]

-----------------------------------------------------------------------------
(* C1 *)

\* C1: when the first k fetches show a non-terminal status and fetch k+1 shows
\* "completed", wait_for_job has made exactly k+1 network requests, returns the
\* record of fetch k+1, and has slept exactly k times, for poll_interval each,
\* once between consecutive fetches and not after the last.
C1_Theorem ==
    ( /\ InWait
      /\ polled # <<>>
      /\ polled[Len(polled)] = "completed"
      /\ \A i \in 1..(Len(polled) - 1) : NonTerminal(polled[i]) )
    => LET k == Len(polled) - 1
       IN  /\ pc = "done"
           /\ outcome.kind = "return"
           /\ outcome.value = FetchedRecord
           /\ sent = k + 1
           /\ Len(slept) = k
           /\ \A i \in 1..Len(slept) : slept[i] = call.poll_interval
           /\ Len(Moves) = 2 * k + 1
           /\ \A i \in 1..Len(Moves) :
                 Moves[i] = IF i % 2 = 1 THEN "fetch" ELSE "sleep"

\* two non-terminal polls, then completed on the third
C1_Witness ==
    /\ InWait /\ pc = "done"
    /\ Len(polled) = 3
    /\ NonTerminal(polled[1]) /\ NonTerminal(polled[2]) /\ polled[3] = "completed"
    /\ outcome.kind = "return"
    /\ slept = <<1, 1>>

-----------------------------------------------------------------------------
(* C2 *)

\* C2 as stated: every fetch non-terminal and max_wait < poll_interval: exactly
\* one fetch, at most one sleep, then the timeout error naming the job.
C2_Original ==
    (InWait /\ pc = "done" /\ AllNonTerminal /\ call.max_wait < call.poll_interval)
    => /\ sent = 1
       /\ Len(slept) <= 1
       /\ outcome = ExpectedJobTimeout

\* C2 amended: every fetch non-terminal and max_wait < poll_interval: the call
\* ends with the timeout error (code TIMEOUT) naming the job; when the first
\* loop test measured less than max_wait there was exactly one fetch and exactly
\* one sleep of poll_interval; otherwise (always so for max_wait <= 0) there was
\* no fetch and no sleep.
C2_Theorem ==
    (InWait /\ pc = "done" /\ AllNonTerminal /\ call.max_wait < call.poll_interval)
    => /\ outcome = ExpectedJobTimeout
       /\ outcome.exc.code = "TIMEOUT"
       /\ checked # <<>>
       /\ IF checked[1] < call.max_wait
          THEN sent = 1 /\ slept = <<call.poll_interval>>
          ELSE sent = 0 /\ slept = <<>>
       /\ (call.max_wait <= 0 => sent = 0)

\* a positive max_wait below poll_interval: one fetch, one sleep, timeout
C2_Witness ==
    /\ InWait /\ pc = "done"
    /\ 0 < call.max_wait /\ call.max_wait < call.poll_interval
    /\ polled # <<>> /\ AllNonTerminal
    /\ sent = 1 /\ Len(slept) = 1
    /\ outcome.kind = "raise" /\ outcome.exc.type = "PrimisTimeoutError"

-----------------------------------------------------------------------------
(* C3 *)

\* C3: a fetch that shows status "failed" ends the call: wait_for_job returns
\* that job record and raises nothing; on the first poll that is after one
\* network request, one loop test and no sleep.
C3_Theorem ==
    InWait =>
        \A i \in 1..Len(polled) :
            polled[i] = "failed" =>
                /\ i = Len(polled)
                /\ pc = "done"
                /\ outcome.kind = "return"
                /\ outcome.value = FetchedRecord
                /\ outcome.value.value["status"] = "failed"
                /\ (i = 1 => sent = 1 /\ slept = <<>> /\ events = <<"check", "fetch">>)

\* failed on the first poll
C3_Witness ==
    /\ InWait /\ pc = "done"
    /\ polled = <<"failed">>
    /\ outcome.kind = "return"

-----------------------------------------------------------------------------
(* C4 *)

\* C4 as stated: the loop runs test, fetch, sleep in order, and the timeout
\* error is never raised before at least one fetch, whatever max_wait is.
C4_Original ==
    InWait =>
        /\ OrderOk
        /\ (outcome.kind = "raise" /\ outcome.exc.type = "PrimisTimeoutError") => sent >= 1

\* C4 amended: the loop runs test, fetch, sleep in order; a fetch happens only
\* after the first loop test measured less than max_wait, and a call whose
\* first test did so cannot end without a fetch; the timeout error of the loop
\* follows a test that measured at least max_wait, after at least one fetch
\* exactly when the first test measured less than max_wait (never when
\* max_wait <= 0).
C4_Theorem ==
    InWait =>
        /\ OrderOk
        /\ (sent >= 1 => checked # <<>> /\ checked[1] < call.max_wait)
        /\ (pc = "done" /\ checked[1] < call.max_wait => sent >= 1)
        /\ (outcome.kind = "raise" /\ outcome.exc.type = "PrimisTimeoutError") =>
              \/ /\ events[Len(events)] = "fetch"
                 /\ sent >= 1
              \/ /\ events[Len(events)] = "check"
                 /\ outcome = ExpectedJobTimeout
                 /\ checked[Len(checked)] >= call.max_wait
                 /\ (sent >= 1 <=> checked[1] < call.max_wait)
                 /\ (call.max_wait <= 0 => sent = 0)

\* a deadline small against the interval: one fetch, then the loop's timeout
C4_Witness ==
    /\ InWait /\ pc = "done"
    /\ call.max_wait = 1 /\ call.poll_interval = 2
    /\ outcome = ExpectedJobTimeout
    /\ events = <<"check", "fetch", "sleep", "check">>

-----------------------------------------------------------------------------
(* C5 *)

\* C5: a 429 response (stated here for bodies that are JSON objects) raises the
\* rate-limit error, code RATE_LIMIT_EXCEEDED, status 429, whose retry_after is
\* the Retry-After header read as an integer, and 60 when the header is absent
\* or does not read as an integer.
C5_Claim ==
    ( /\ GotResponse
      /\ lastNet.status = 429
      /\ lastNet.body.kind = "object" )
    => /\ outcome.kind = "raise"
       /\ outcome.exc.type = "PrimisRateLimitError"
       /\ outcome.exc.code = "RATE_LIMIT_EXCEEDED"
       /\ outcome.exc.status_code = 429
       /\ outcome.exc.retry_after =
             IF Has(lastNet.headers, "Retry-After")
                /\ PyInt(lastNet.headers["Retry-After"]).ok
             THEN PyInt(lastNet.headers["Retry-After"]).val
             ELSE 60

-----------------------------------------------------------------------------
(* C6 *)

\* C6: a 401 response raises the auth error, code AUTH_ERROR, status 401,
\* whatever its body holds (stated here for bodies that are JSON, object or
\* not).
C6_Claim ==
    ( /\ GotResponse
      /\ lastNet.status = 401
      /\ lastNet.body.kind # "notjson" )
    => /\ outcome.kind = "raise"
       /\ outcome.exc.type = "PrimisAuthError"
       /\ outcome.exc.code = "AUTH_ERROR"
       /\ outcome.exc.status_code = 401

-----------------------------------------------------------------------------
(* C7 *)

ExpectedApiError ==
    Raise([type |-> "PrimisAPIError",
           message |-> IF Has(lastNet.body.value, "error") THEN lastNet.body.value["error"]
                       ELSE "HTTP " \o ToString(lastNet.status),
           code |-> IF Has(lastNet.body.value, "code") THEN lastNet.body.value["code"]
                    ELSE "HTTP_ERROR",
           status_code |-> lastNet.status])

\* C7 as stated (for bodies that are JSON objects): a status outside [200,300),
\* not 401 and not 429, raises the generic API error with that status, the
\* body's error or "HTTP {status}", and the body's code or HTTP_ERROR.
C7_Original ==
    ( /\ GotResponse
      /\ lastNet.body.kind = "object"
      /\ ~(200 <= lastNet.status /\ lastNet.status < 300)
      /\ lastNet.status \notin {401, 429} )
    => outcome = ExpectedApiError

\* C7 amended: for a body that is a JSON object, a status in [400,600), not 401
\* and not 429, raises the generic API error with that status, the body's error
\* or "HTTP {status}", and the body's code or HTTP_ERROR; a status in [300,400)
\* with a JSON body is a success and returns the parsed body.
C7_Theorem ==
    /\ ( /\ GotResponse
         /\ lastNet.body.kind = "object"
         /\ 400 <= lastNet.status /\ lastNet.status < 600
         /\ lastNet.status \notin {401, 429} )
       => outcome = ExpectedApiError
    /\ ( /\ GotResponse
         /\ lastNet.body.kind # "notjson"
         /\ 300 <= lastNet.status /\ lastNet.status < 400 )
       => (outcome.kind = "return" /\ outcome.value = lastNet.body)

\* a 404 whose body has neither error nor code: both fall back
C7_Witness ==
    /\ GotResponse
    /\ lastNet.status = 404
    /\ lastNet.body.kind = "object"
    /\ ~Has(lastNet.body.value, "error") /\ ~Has(lastNet.body.value, "code")
    /\ outcome.kind = "raise"
    /\ outcome.exc.message = "HTTP 404"
    /\ outcome.exc.code = "HTTP_ERROR"

-----------------------------------------------------------------------------
(* C8 *)

\* C8 as stated: a status in [200,300) returns the parsed body and raises
\* nothing.
C8_Original ==
    (GotResponse /\ 200 <= lastNet.status /\ lastNet.status < 300)
    => (outcome.kind = "return" /\ outcome.value = lastNet.body)

\* C8 amended: a status in [200,300) with a body that parses as JSON returns the
\* parsed body and raises nothing; with a body that does not parse as JSON it
\* raises the base error with code PARSE_ERROR.
C8_Theorem ==
    (GotResponse /\ 200 <= lastNet.status /\ lastNet.status < 300)
    => IF lastNet.body.kind = "notjson"
       THEN /\ outcome.kind = "raise"
            /\ outcome.exc.type = "PrimisError"
            /\ outcome.exc.code = "PARSE_ERROR"
       ELSE /\ outcome.kind = "return"
            /\ outcome.value = lastNet.body

\* a 2xx other than 200 whose JSON body is returned as parsed
C8_Witness ==
    /\ GotResponse
    /\ lastNet.status = 204
    /\ lastNet.body.kind = "object"
    /\ outcome.kind = "return"
    /\ outcome.value = lastNet.body

-----------------------------------------------------------------------------
(* C9 *)

InvalidKeyError ==
    Raise([type |-> "PrimisError",
           message |-> "Invalid API key format. Keys must start with 'prmis_'",
           code |-> "UNKNOWN"])

\* a construction with a credential that lacks the prefix: the base error, the
\* session held before left as it was, no network request
RejectedConstruction ==
    ( /\ call'.op = "Primis"
      /\ <<client, call, outcome>>' # <<client, call, outcome>>
      /\ ~StartsWith(call'.api_key, Prefix) )
    => /\ outcome' = InvalidKeyError
       /\ client' = client
       /\ sent' = 0
       /\ lastNet' = NoNet

\* C9: construction with a credential that does not begin with prmis_ fails
\* with the base library error, issues no network request and yields no session
\* or namespaces; no session ever holds a credential without the prefix.
C9_Theorem ==
    /\ [](client.built =>
             /\ StartsWith(client.http.api_key, Prefix)
             /\ client.namespaces = Namespaces)
    /\ [](call.op = "Primis" /\ ~StartsWith(call.api_key, Prefix)
             => outcome = InvalidKeyError /\ sent = 0)
    /\ [][RejectedConstruction]_vars

\* a credential with the wrong separator was refused and no session exists
C9_Witness ==
    /\ call.op = "Primis"
    /\ call.api_key = <<"p", "r", "m", "i", "s", "-", "k">>
    /\ outcome.kind = "raise"
    /\ ~client.built

-----------------------------------------------------------------------------
(* C10 *)

\* C10: a request call issues exactly one network request; in wait_for_job
\* every fetch is one network request, a fetch whose request raised ends the
\* call at once with that same error, with no further fetch and no sleep after
\* it, and every fetch that was followed by another showed a non-terminal
\* status in a successful response.
C10_Theorem ==
    /\ RequestDone => sent = 1
    /\ InWait =>
          /\ sent = Len(polled)
          /\ \A i \in 1..(Len(polled) - 1) : NonTerminal(polled[i])
          /\ polled # <<>> =>
                LET r == request("/api/batch/jobs/" \o call.job_id, lastNet)
                IN  /\ r.kind = "raise" =>
                          /\ pc = "done"
                          /\ outcome = r
                          /\ events[Len(events)] = "fetch"
                          /\ Len(slept) = Len(polled) - 1
                    /\ pc # "done" =>
                          /\ r.kind = "return"
                          /\ NonTerminal(polled[Len(polled)])

\* the second fetch is answered 429 and the rate-limit error ends the call
C10_Witness ==
    /\ InWait /\ pc = "done"
    /\ Len(polled) = 2
    /\ polled[2] = "<raise>"
    /\ outcome.kind = "raise"
    /\ outcome.exc.type = "PrimisRateLimitError"
    /\ Len(slept) = 1

====
